---------------------------- MODULE Spec2Model ----------------------------
(***************************************************************************)
(* A model of fastdd's copy engine, execute_dd (src/src/lib.rs), together  *)
(* with the io_uring ring it drives and the progress-reporter thread it    *)
(* spawns.                                                                 *)
(*                                                                         *)
(* The engine is one sequential process; pc is its position in execute_dd. *)
(* The kernel is a second process: it takes operations that were submitted *)
(* to the ring, performs them on the two files in any order, transferring  *)
(* any number of bytes up to the requested length (or failing with an      *)
(* errno), and posts a completion.  The reporter is a third process.       *)
(*                                                                         *)
(* The source file holds byte i+1 at position i, so that a byte in the     *)
(* destination tells where it came from; the destination starts as zeros   *)
(* and counts, per position, how often it was written.                     *)
(***************************************************************************)
EXTENDS Integers, Sequences, FiniteSets

\* ------------------------------------------------------------- bounds ----
MaxFileLen == 3     \* input file lengths 0..MaxFileLen
MaxBs      == 3     \* block sizes 1..MaxBs
MaxBuffers == 2     \* buffer counts 1..MaxBuffers
MaxSeek    == 1     \* iseek, oseek in 0..MaxSeek (blocks)
MaxCount   == 1     \* count is None or Some(0..MaxCount)
MaxMemlock == 2     \* RLIMIT_MEMLOCK soft limits 0..MaxMemlock (bytes)
RingEntries == 1    \* submission-queue capacity (IoUring::new(256), scaled down)

\* u64 arithmetic, scaled down to a 16-bit word so that the checker's integers
\* can hold it; every quantity of the bounded inputs is far below it, so only
\* the subtraction at lib.rs:151 can wrap.
Word == 2 ^ 16

TAG_READ  == 0
TAG_WRITE == 1

\* errno values the kernel may report: EIO, ENOSPC.
Errnos == {5, 28}

\* ------------------------------------------------------------ helpers ----
Min(a, b) == IF a <= b THEN a ELSE b

Range(s) == {s[i] : i \in DOMAIN s}

RECURSIVE SumSizes(_)
SumSizes(s) == IF s = <<>> THEN 0 ELSE Head(s)[2] + SumSizes(Tail(s))

\* The input file: byte i+1 at position i.
SrcByte(i) == i + 1

\* The destination file is observed on positions 0..DstLen-1.
DstLen == MaxSeek * MaxBs + MaxFileLen + 1

\* Results of execute_dd: std::io::Result<u64>, or a panic that unwinds.
NoResult    == [kind |-> "none",  val |-> 0, msg |-> ""]
Ok(v)       == [kind |-> "Ok",    val |-> v, msg |-> ""]
OsError(c)  == [kind |-> "Err",   val |-> c, msg |-> "os"]
Other(m)    == [kind |-> "Err",   val |-> 0, msg |-> m]
Panic(m)    == [kind |-> "panic", val |-> 0, msg |-> m]

\* The errors of the ring's own calls (any errno other than those of Errnos).
RingSetupFailed  == OsError(12)      \* IoUring::new, register_*: ENOMEM
SubmitFailed     == OsError(16)      \* submit, submit_and_wait: EBUSY
UnregisterFailed == OsError(6)       \* unregister_*: ENXIO

RWMetadata(o, s) == [offset |-> o, size |-> s]
default_metadata == RWMetadata(0, 0)

\* A submission-queue entry: opcode Read/ReadFixed/Write/WriteFixed on buffer
\* buf_idx, starting ptr bytes into the buffer, len bytes at file offset.
Sqe(tag, buf_idx, ptr, len, offset, fixed) ==
    [tag |-> tag, buf |-> buf_idx, ptr |-> ptr, len |-> len,
     offset |-> offset, fixed |-> fixed]

\* user_data = buf_idx << 1 | tag, and its decoding in the drain loop.
UserData(buf_idx, tag) == buf_idx * 2 + tag
OpType(user_data) == user_data % 2
BufIdx(user_data) == user_data \div 2

VARIABLES
    arg_data,       \* the ArgData passed in (file handles as the input length)
    pc,             \* the engine's position in execute_dd
    result,         \* what execute_dd returned
    bs, ibase, obase, num_buffers,
    free_bufs, metadata, total_size, cur_blocks, num_blocks, cur_bytes,
    to_reads, max_buf_size, registered_num_buffers, bufs,
    status_byte_count, stop_flag, handle,
    sq,             \* ring: entries pushed and not yet submitted
    inflight,       \* ring: entries submitted, owned by the kernel
    cq,             \* ring: completions posted and not yet taken
    registered,     \* ring: what is registered with it
    dst,            \* the output file
    hist            \* history: what the environment did in this run

engine == <<pc, result, bs, ibase, obase, num_buffers, free_bufs, metadata,
            total_size, cur_blocks, num_blocks, cur_bytes, to_reads,
            max_buf_size, registered_num_buffers, status_byte_count,
            stop_flag>>
ring   == <<sq, inflight, cq, registered>>
vars   == <<arg_data, engine, bufs, handle, ring, dst, hist>>

Counts == {{}} \cup {{c} : c \in 0..MaxCount}     \* None, Some(c)

ArgDatas == [ifile_len : 0..MaxFileLen, block_size : 1..MaxBs,
             count : Counts, iseek : 0..MaxSeek, oseek : 0..MaxSeek,
             num_buffers : 1..MaxBuffers, progress : BOOLEAN]

Init ==
    /\ arg_data \in ArgDatas
    /\ pc = "start"
    /\ result = NoResult
    /\ bs = 0 /\ ibase = 0 /\ obase = 0 /\ num_buffers = 0
    /\ free_bufs = <<>>
    /\ metadata = <<>>
    /\ total_size = 0 /\ cur_blocks = 0 /\ num_blocks = 0 /\ cur_bytes = 0
    /\ to_reads = <<>>
    /\ max_buf_size = 0
    /\ registered_num_buffers = 0
    /\ bufs = <<>>
    /\ status_byte_count = 0
    /\ stop_flag = FALSE
    /\ handle = "None"
    /\ sq = <<>> /\ inflight = {} /\ cq = <<>>
    /\ registered = [buffers |-> FALSE, files |-> FALSE]
    /\ dst = [j \in 0..(DstLen - 1) |-> [val |-> 0, n |-> 0]]
    /\ hist = [short_read |-> FALSE, short_write |-> FALSE, fault |-> FALSE,
               registered_ok |-> FALSE]

\* ------------------------------------------------ returning, submitting ----
Return(r) == pc' = "returned" /\ result' = r

Fault == hist' = [hist EXCEPT !.fault = TRUE]

\* ring.submit(): everything pushed goes to the kernel.
SubmittedSq(s) == <<>>
SubmittedInflight(s, f) == f \cup Range(s)

SqFull(s) == Len(s) >= RingEntries

\* push_sqe, once its submit (if the queue was full) has succeeded.
PushedSq(s, e) == IF SqFull(s) THEN <<e>> ELSE Append(s, e)
PushedInflight(s, f) == IF SqFull(s) THEN SubmittedInflight(s, f) ELSE f

\* ------------------------------------------------------ pure arithmetic ----
WrappingMul(a, b) == (a * b) % Word
WrappingSub(a, b) == (a - b + Word) % Word

\* (mutant) the seek check rejects a seek to exactly the end of the file.
CheckedSubStrict(a, b) == IF a > b THEN {a - b} ELSE {}

\* file_len = len.checked_sub(ibase): the empty set is None.
CheckedSub(a, b) == IF a >= b THEN {a - b} ELSE {}

TotalSize(file_len, count, block) ==
    IF count = {} THEN file_len
    ELSE LET c == CHOOSE c \in count : TRUE IN Min(file_len, WrappingMul(c, block))

\* (mutant) the block count rounds down: a trailing partial block is not counted.
NumBlocksFloor(total, block) == total \div block

NumBlocks(total, block) ==
    IF total % block = 0 THEN total \div block ELSE total \div block + 1

\* The subtraction at lib.rs:151 underflows when the limit is below one block.
RegisteredUnderflows(nb, block, limit) ==
    /\ WrappingMul(nb, block) >= limit
    /\ limit \div block < 1

RegisteredNumBuffers(nb, block, limit) ==
    IF WrappingMul(nb, block) >= limit
    THEN WrappingSub(limit \div block, 1)
    ELSE nb

\* (mutant) the last fresh range is not clamped to what is left.
FreshRangeUnclamped(base, consumed, block, total) ==
    <<base + consumed, block>>

\* A fresh range: block_size bytes, the last one clamped to the remainder.
FreshRange(base, consumed, block, total) ==
    <<base + consumed, Min(block, total - consumed)>>

\* (mutant) the write offset forgets to take the input base off.
WriteOffsetNoRebase(out_base, roffset, in_base) == out_base + roffset

WriteOffset(out_base, roffset, in_base) == out_base + roffset - in_base

\* Where in the buffer a reissued write starts: as_ptr().add(res).
RemainingBufPtr(res) == res

\* (mutant) a short read puts the whole range back on the backlog.
RemainderWhole(read_metadata, res) ==
    <<read_metadata.offset, read_metadata.size>>

\* lib.rs:253-255: what a short read of res bytes leaves to be read.
Remainder(read_metadata, res) ==
    <<read_metadata.offset + res, read_metadata.size - res>>

\* (mutant) the counter advances by a block per write completion.
FetchAddBlock(counter, res) == counter + bs

\* lib.rs:282: status_byte_count.fetch_add(res).
FetchAdd(counter, res) == counter + res

\* ---------------------------------------------------------------- setup ----
\* lib.rs:117-138.
Prologue ==
    /\ pc = "start"
    /\ LET block == arg_data.block_size
           in_base == WrappingMul(arg_data.iseek, block)
           file_len == CheckedSub(arg_data.ifile_len, in_base)
       IN \/ /\ Return(RingSetupFailed)      \* IoUring::new(256)? fails
             /\ Fault
             /\ UNCHANGED <<bs, ibase, obase, num_buffers, free_bufs,
                            metadata, total_size, num_blocks>>
          \/ /\ file_len = {}
             /\ Return(Other("Invalid input seek offset"))
             /\ bs' = block
             /\ ibase' = in_base
             /\ obase' = WrappingMul(arg_data.oseek, block)
             /\ num_buffers' = arg_data.num_buffers
             /\ free_bufs' = [i \in 1..arg_data.num_buffers |-> i - 1]
             /\ metadata' = [i \in 0..(2 * arg_data.num_buffers - 1)
                               |-> default_metadata]
             /\ UNCHANGED <<total_size, num_blocks, hist>>
          \/ /\ file_len # {}
             /\ pc' = "memlock"
             /\ bs' = block
             /\ ibase' = in_base
             /\ obase' = WrappingMul(arg_data.oseek, block)
             /\ num_buffers' = arg_data.num_buffers
             /\ free_bufs' = [i \in 1..arg_data.num_buffers |-> i - 1]
             /\ metadata' = [i \in 0..(2 * arg_data.num_buffers - 1)
                               |-> default_metadata]
             /\ total_size' = TotalSize(CHOOSE l \in file_len : TRUE,
                                        arg_data.count, block)
             /\ num_blocks' = NumBlocks(total_size', block)
             /\ UNCHANGED <<result, hist>>
    /\ UNCHANGED <<arg_data, cur_blocks, cur_bytes, to_reads, max_buf_size,
                   registered_num_buffers, bufs, status_byte_count,
                   stop_flag, handle, ring, dst>>

\* lib.rs:140-154: get_memlock_limit() and the registration boundary.
QueryMemlock ==
    /\ pc = "memlock"
    /\ \/ /\ Return(Other("Failed to get memory lock limit"))
          /\ Fault
          /\ UNCHANGED <<max_buf_size, registered_num_buffers>>
       \/ \E limit \in 0..MaxMemlock :
            /\ max_buf_size' = limit
            /\ \/ /\ RegisteredUnderflows(num_buffers, bs, limit)
                  /\ pc' = "panicked"     \* overflow checks on (debug build)
                  /\ result' = Panic("attempt to subtract with overflow")
                  /\ UNCHANGED registered_num_buffers
               \/ /\ pc' = "register"     \* wraps when they are off
                  /\ registered_num_buffers' =
                        RegisteredNumBuffers(num_buffers, bs, limit)
                  /\ UNCHANGED result
            /\ UNCHANGED hist
    /\ UNCHANGED <<arg_data, bs, ibase, obase, num_buffers, free_bufs,
                   metadata, total_size, cur_blocks, num_blocks, cur_bytes,
                   to_reads, bufs, status_byte_count, stop_flag, handle,
                   ring, dst>>

\* lib.rs:156-173: allocate the buffers, register the first
\* registered_num_buffers of them (take() stops at the last one) and the files.
\* max_buf_size is not read after line 154 and is forgotten here.
Register ==
    /\ pc = "register"
    /\ max_buf_size' = 0
    /\ bufs' = [b \in 0..(num_buffers - 1) |-> [k \in 0..(bs - 1) |-> 0]]
    /\ \/ /\ Return(RingSetupFailed)         \* register_buffers fails
          /\ Fault
          /\ UNCHANGED registered
       \/ /\ Return(RingSetupFailed)         \* register_files fails
          /\ Fault
          /\ registered' = [registered EXCEPT !.buffers = TRUE]
       \/ /\ pc' = "spawn"
          /\ registered' = [buffers |-> TRUE, files |-> TRUE]
          /\ hist' = [hist EXCEPT !.registered_ok = TRUE]
          /\ UNCHANGED result
    /\ UNCHANGED <<arg_data, bs, ibase, obase, num_buffers, free_bufs,
                   metadata, total_size, cur_blocks, num_blocks, cur_bytes,
                   to_reads, registered_num_buffers,
                   status_byte_count, stop_flag, handle, sq, inflight, cq,
                   dst>>

\* lib.rs:175-189: the shared counter, the stop flag and the reporter thread.
SpawnReporter ==
    /\ pc = "spawn"
    /\ pc' = "loop"
    /\ status_byte_count' = 0
    /\ stop_flag' = FALSE
    /\ handle' = IF arg_data.progress THEN "running" ELSE "None"
    /\ UNCHANGED <<arg_data, result, bs, ibase, obase, num_buffers, free_bufs,
                   metadata, total_size, cur_blocks, num_blocks, cur_bytes,
                   to_reads, max_buf_size, registered_num_buffers, bufs,
                   ring, dst, hist>>

\* ----------------------------------------------------------- drive loop ----
setup_locals == <<bs, ibase, obase, num_buffers, total_size, num_blocks,
                  max_buf_size, registered_num_buffers>>

\* lib.rs:192: while cur_blocks < num_blocks.
LoopHead ==
    /\ pc = "loop"
    /\ pc' = IF cur_blocks < num_blocks THEN "fill" ELSE "unregister"
    /\ UNCHANGED <<arg_data, result, setup_locals, free_bufs, metadata,
                   cur_blocks, cur_bytes, to_reads, bufs, status_byte_count,
                   stop_flag, handle, ring, dst, hist>>

FillCondition ==
    free_bufs # <<>> /\ (to_reads # <<>> \/ cur_bytes < total_size)

\* lib.rs:198-209: the next range to read, backlog first.  The third branch
\* ("No more data to read") cannot be taken under FillCondition.
NextRange ==
    IF to_reads # <<>> THEN Head(to_reads)
    ELSE FreshRange(ibase, cur_bytes, bs, total_size)

\* lib.rs:193-230: one iteration of the fill loop.
Fill ==
    /\ pc = "fill"
    /\ FillCondition
    /\ \/ /\ SqFull(sq)                      \* lib.rs:195: submit()? fails
          /\ Return(SubmitFailed)
          /\ Fault
          /\ UNCHANGED <<free_bufs, metadata, cur_bytes, to_reads, sq,
                         inflight>>
       \/ LET sq1 == IF SqFull(sq) THEN SubmittedSq(sq) ELSE sq
              in1 == IF SqFull(sq) THEN SubmittedInflight(sq, inflight)
                     ELSE inflight
              roffset == NextRange[1]
              rsize == NextRange[2]
              buf_idx == Head(free_bufs)
              read_op == Sqe(TAG_READ, buf_idx, 0, rsize, roffset,
                             buf_idx < registered_num_buffers)
          IN /\ to_reads' = IF to_reads # <<>> THEN Tail(to_reads) ELSE to_reads
             /\ cur_bytes' = IF to_reads # <<>> THEN cur_bytes
                             ELSE cur_bytes + rsize
             /\ free_bufs' = Tail(free_bufs)
             /\ sq' = PushedSq(sq1, read_op)
             /\ inflight' = PushedInflight(sq1, in1)
             /\ metadata' = [metadata EXCEPT ![buf_idx * 2] =
                                RWMetadata(roffset, rsize)]
             /\ UNCHANGED <<pc, result, hist>>
    /\ UNCHANGED <<arg_data, setup_locals, cur_blocks, bufs,
                   status_byte_count, stop_flag, handle, cq, registered, dst>>

\* (mutant) the fill loop is left while a buffer and a range are there.
FillDoneEarly ==
    /\ pc = "fill"
    /\ pc' = "drain"
    /\ UNCHANGED <<arg_data, result, setup_locals, free_bufs, metadata,
                   cur_blocks, cur_bytes, to_reads, bufs, status_byte_count,
                   stop_flag, handle, ring, dst, hist>>

\* lib.rs:193: the fill loop's condition is false.
FillDone ==
    /\ pc = "fill"
    /\ ~FillCondition
    /\ pc' = "drain"
    /\ UNCHANGED <<arg_data, result, setup_locals, free_bufs, metadata,
                   cur_blocks, cur_bytes, to_reads, bufs, status_byte_count,
                   stop_flag, handle, ring, dst, hist>>

\* lib.rs:233-235: with no completion ready, submit what is queued and block
\* until one arrives.
DrainTop ==
    /\ pc = "drain"
    /\ \/ /\ cq # <<>>
          /\ pc' = "cqe"
          /\ UNCHANGED <<result, sq, inflight, hist>>
       \/ /\ cq = <<>>
          /\ pc' = "wait"
          /\ sq' = SubmittedSq(sq)
          /\ inflight' = SubmittedInflight(sq, inflight)
          /\ UNCHANGED <<result, hist>>
       \/ /\ cq = <<>>                       \* submit_and_wait(1)? fails
          /\ Return(SubmitFailed)
          /\ Fault
          /\ UNCHANGED <<sq, inflight>>
    /\ UNCHANGED <<arg_data, setup_locals, free_bufs, metadata, cur_blocks,
                   cur_bytes, to_reads, bufs, status_byte_count, stop_flag,
                   handle, cq, registered, dst>>

\* lib.rs:234: submit_and_wait(1) returns once a completion is there.
Wake ==
    /\ pc = "wait"
    /\ cq # <<>>
    /\ pc' = "cqe"
    /\ UNCHANGED <<arg_data, result, setup_locals, free_bufs, metadata,
                   cur_blocks, cur_bytes, to_reads, bufs, status_byte_count,
                   stop_flag, handle, ring, dst, hist>>

\* lib.rs:236-239: the completion at the head of the queue.
Cqe == Head(cq)
CqeBuf == BufIdx(Cqe.user_data)
CqeRes == Cqe.result

\* (mutant) a failed completion is dropped and the drain loop goes on.
OnNegativeIgnored ==
    /\ pc' = "check"
    /\ cq' = Tail(cq)
    /\ UNCHANGED <<arg_data, result, setup_locals, free_bufs, metadata,
                   cur_blocks, cur_bytes, to_reads, bufs, status_byte_count,
                   stop_flag, handle, sq, inflight, registered, dst,
                   hist>>

\* lib.rs:241-244 and 276-279: a negative result ends the run.
OnNegative ==
    /\ Return(OsError(-CqeRes))
    /\ cq' = Tail(cq)
    /\ UNCHANGED <<arg_data, setup_locals, free_bufs, metadata, cur_blocks,
                   cur_bytes, to_reads, bufs, status_byte_count, stop_flag,
                   handle, sq, inflight, registered, dst, hist>>

ReadFailed ==
    /\ pc = "cqe" /\ cq # <<>>
    /\ OpType(Cqe.user_data) = TAG_READ
    /\ CqeRes < 0
    /\ OnNegative

WriteFailed ==
    /\ pc = "cqe" /\ cq # <<>>
    /\ OpType(Cqe.user_data) = TAG_WRITE
    /\ CqeRes < 0
    /\ OnNegative

\* lib.rs:245-274: a read completed with res >= 0 bytes; they are written
\* out at once and what is missing goes to the backlog.  assert!(res <
\* read_metadata.size) holds of every completion the kernel posts.
ReadCompleted ==
    /\ pc = "cqe" /\ cq # <<>>
    /\ OpType(Cqe.user_data) = TAG_READ
    /\ CqeRes >= 0
    /\ LET buf_idx == CqeBuf
           res == CqeRes
           read_metadata == metadata[buf_idx * 2]
           woffset == WriteOffset(obase, read_metadata.offset, ibase)
           write_op == Sqe(TAG_WRITE, buf_idx, 0, res, woffset,
                           buf_idx < registered_num_buffers)
       IN /\ res <= read_metadata.size
          /\ to_reads' = IF res # read_metadata.size
                         THEN Append(to_reads, Remainder(read_metadata, res))
                         ELSE to_reads
          /\ cq' = Tail(cq)
          /\ \/ /\ SqFull(sq)                \* push_sqe's submit()? fails
                /\ Return(SubmitFailed)
                /\ Fault
                /\ UNCHANGED <<metadata, sq, inflight>>
             \/ /\ sq' = PushedSq(sq, write_op)
                /\ inflight' = PushedInflight(sq, inflight)
                /\ pc' = "check"
                /\ metadata' = [metadata EXCEPT ![buf_idx * 2 + 1] =
                                   RWMetadata(woffset, res)]
                /\ UNCHANGED <<result, hist>>
    /\ UNCHANGED <<arg_data, setup_locals, free_bufs, cur_blocks, cur_bytes,
                   bufs, status_byte_count, stop_flag, handle, registered,
                   dst>>

\* (mutant) the handler of a short write also puts the buffer back on the
\* free queue, as the handler of a full write does.
WritePartialReleases ==
    /\ pc = "cqe" /\ cq # <<>>
    /\ OpType(Cqe.user_data) = TAG_WRITE
    /\ CqeRes >= 0
    /\ LET buf_idx == CqeBuf
           res == CqeRes
           write_metadata == metadata[buf_idx * 2 + 1]
           woffset == write_metadata.offset + res
           wsize == write_metadata.size - res
           write_op == Sqe(TAG_WRITE, buf_idx, RemainingBufPtr(res), wsize,
                           woffset, buf_idx < registered_num_buffers)
       IN /\ res < write_metadata.size
          /\ sq' = PushedSq(sq, write_op)
          /\ inflight' = PushedInflight(sq, inflight)
          /\ cq' = Tail(cq)
          /\ pc' = "check"
          /\ status_byte_count' = FetchAdd(status_byte_count, res)
          /\ free_bufs' = Append(free_bufs, buf_idx)
          /\ metadata' = [metadata EXCEPT ![buf_idx * 2 + 1] =
                             RWMetadata(woffset, wsize)]
    /\ UNCHANGED <<arg_data, result, setup_locals, cur_blocks, cur_bytes,
                   to_reads, bufs, stop_flag, handle, registered, dst, hist>>

\* lib.rs:280-306: a write completed short; the remainder is reissued.
WritePartial ==
    /\ pc = "cqe" /\ cq # <<>>
    /\ OpType(Cqe.user_data) = TAG_WRITE
    /\ CqeRes >= 0
    /\ LET buf_idx == CqeBuf
           res == CqeRes
           write_metadata == metadata[buf_idx * 2 + 1]
           woffset == write_metadata.offset + res
           wsize == write_metadata.size - res
           write_op == Sqe(TAG_WRITE, buf_idx, RemainingBufPtr(res), wsize,
                           woffset, buf_idx < registered_num_buffers)
       IN /\ res < write_metadata.size
          /\ \/ /\ SqFull(sq)                \* push_sqe's submit()? fails
                /\ Return(SubmitFailed)
                /\ Fault
                /\ cq' = Tail(cq)
                /\ status_byte_count' = FetchAdd(status_byte_count, res)
                /\ UNCHANGED <<metadata, sq, inflight>>
             \/ /\ sq' = PushedSq(sq, write_op)
                /\ inflight' = PushedInflight(sq, inflight)
                /\ cq' = Tail(cq)
                /\ pc' = "check"
                /\ status_byte_count' = FetchAdd(status_byte_count, res)
                /\ metadata' = [metadata EXCEPT ![buf_idx * 2 + 1] =
                                   RWMetadata(woffset, wsize)]
                /\ UNCHANGED <<result, hist>>
    /\ UNCHANGED <<arg_data, setup_locals, free_bufs, cur_blocks, cur_bytes,
                   to_reads, bufs, stop_flag, handle, registered, dst>>

\* (mutant) the handler of a full write counts the block and keeps the
\* buffer.
WriteFullKeepsBuffer ==
    /\ pc = "cqe" /\ cq # <<>>
    /\ OpType(Cqe.user_data) = TAG_WRITE
    /\ CqeRes >= 0
    /\ CqeRes = metadata[CqeBuf * 2 + 1].size
    /\ status_byte_count' = FetchAdd(status_byte_count, CqeRes)
    /\ cur_blocks' = cur_blocks + 1
    /\ cq' = Tail(cq)
    /\ pc' = "check"
    /\ UNCHANGED <<arg_data, result, setup_locals, free_bufs, metadata,
                   cur_bytes, to_reads, bufs, stop_flag, handle, sq, inflight,
                   registered, dst, hist>>

\* lib.rs:280-283, 307-310: a write completed in full; the buffer is free.
WriteFull ==
    /\ pc = "cqe" /\ cq # <<>>
    /\ OpType(Cqe.user_data) = TAG_WRITE
    /\ CqeRes >= 0
    /\ CqeRes = metadata[CqeBuf * 2 + 1].size
    /\ status_byte_count' = FetchAdd(status_byte_count, CqeRes)
    /\ cur_blocks' = cur_blocks + 1
    /\ free_bufs' = Append(free_bufs, CqeBuf)
    /\ cq' = Tail(cq)
    /\ pc' = "check"
    /\ UNCHANGED <<arg_data, result, setup_locals, metadata, cur_bytes,
                   to_reads, bufs, stop_flag, handle, sq, inflight,
                   registered, dst, hist>>

\* (mutant) the drain loop has no break.
DrainCheckNoBreak ==
    /\ pc = "check"
    /\ pc' = "drain"
    /\ UNCHANGED <<arg_data, result, setup_locals, free_bufs, metadata,
                   cur_blocks, cur_bytes, to_reads, bufs, status_byte_count,
                   stop_flag, handle, ring, dst, hist>>

\* lib.rs:312-314: leave the drain loop once no completion is ready.
DrainCheck ==
    /\ pc = "check"
    /\ pc' = IF cq = <<>> THEN "flush" ELSE "drain"
    /\ UNCHANGED <<arg_data, result, setup_locals, free_bufs, metadata,
                   cur_blocks, cur_bytes, to_reads, bufs, status_byte_count,
                   stop_flag, handle, ring, dst, hist>>

\* lib.rs:316-318: submit what the handlers queued.
Flush ==
    /\ pc = "flush"
    /\ \/ /\ pc' = "loop"
          /\ sq' = SubmittedSq(sq)
          /\ inflight' = SubmittedInflight(sq, inflight)
          /\ UNCHANGED <<result, hist>>
       \/ /\ sq # <<>>                       \* submit()? fails
          /\ Return(SubmitFailed)
          /\ Fault
          /\ UNCHANGED <<sq, inflight>>
    /\ UNCHANGED <<arg_data, setup_locals, free_bufs, metadata, cur_blocks,
                   cur_bytes, to_reads, bufs, status_byte_count, stop_flag,
                   handle, cq, registered, dst>>

\* ------------------------------------------------------------- epilogue ----
\* lib.rs:321-322: unregister_buffers()?, unregister_files()?.
Unregister ==
    /\ pc = "unregister"
    /\ \/ /\ Return(UnregisterFailed)        \* unregister_buffers fails
          /\ Fault
          /\ UNCHANGED registered
       \/ /\ Return(UnregisterFailed)        \* unregister_files fails
          /\ Fault
          /\ registered' = [registered EXCEPT !.buffers = FALSE]
       \/ /\ pc' = "stop"
          /\ registered' = [buffers |-> FALSE, files |-> FALSE]
          /\ UNCHANGED <<result, hist>>
    /\ UNCHANGED <<arg_data, setup_locals, free_bufs, metadata, cur_blocks,
                   cur_bytes, to_reads, bufs, status_byte_count, stop_flag,
                   handle, sq, inflight, cq, dst>>

\* lib.rs:323: stop_flag.store(true).
StopReporter ==
    /\ pc = "stop"
    /\ stop_flag' = TRUE
    /\ pc' = "join"
    /\ UNCHANGED <<arg_data, result, setup_locals, free_bufs, metadata,
                   cur_blocks, cur_bytes, to_reads, bufs, status_byte_count,
                   handle, ring, dst, hist>>

\* lib.rs:324-329: join the reporter, if there is one, and return.
JoinAndReturn ==
    /\ pc = "join"
    /\ handle \in {"None", "exited"}
    /\ Return(Ok(total_size))
    /\ UNCHANGED <<arg_data, setup_locals, free_bufs, metadata, cur_blocks,
                   cur_bytes, to_reads, bufs, status_byte_count, stop_flag,
                   handle, ring, dst, hist>>

\* ------------------------------------------------------------- reporter ----
\* lib.rs:183-187: one turn of the reporter's loop with the flag not set:
\* sample the counter, print the percentage, sleep.
ReporterTurn ==
    /\ handle = "running"
    /\ ~stop_flag
    /\ UNCHANGED vars

\* lib.rs:183, 188: the flag is set; the thread ends.
ReporterExit ==
    /\ handle = "running"
    /\ stop_flag
    /\ handle' = "exited"
    /\ UNCHANGED <<arg_data, engine, bufs, ring, dst, hist>>

\* --------------------------------------------------------------- kernel ----
\* The ring lives until execute_dd returns or unwinds (the IoUring is a local).
RingAlive == pc \notin {"returned", "panicked"}

\* How many bytes of the input file a read of len bytes at offset covers.
Readable(offset, len) ==
    IF arg_data.ifile_len <= offset THEN 0
    ELSE Min(len, arg_data.ifile_len - offset)

\* The byte counts a transfer of up to len bytes may report: on a regular file
\* read(2) and write(2) return 0 only at end of file or for a length of 0;
\* any shorter count of at least one byte is a short transfer.
Transfers(len) == IF len = 0 THEN {0} ELSE 1..len

\* The kernel performs a submitted read: n bytes of the input file, from the
\* operation's offset, land in its buffer.
KernelRead(e) ==
    /\ RingAlive
    /\ e \in inflight /\ e.tag = TAG_READ
    /\ \E n \in Transfers(Readable(e.offset, e.len)) :
         /\ bufs' = [bufs EXCEPT ![e.buf] =
                       [k \in DOMAIN bufs[e.buf] |->
                          IF e.ptr <= k /\ k < e.ptr + n
                          THEN SrcByte(e.offset + (k - e.ptr))
                          ELSE bufs[e.buf][k]]]
         /\ cq' = Append(cq, [user_data |-> UserData(e.buf, TAG_READ),
                              result |-> n])
         /\ hist' = [hist EXCEPT !.short_read = @ \/ n < e.len]
    /\ inflight' = inflight \ {e}
    /\ UNCHANGED <<arg_data, engine, handle, sq, registered, dst>>

\* The kernel performs a submitted write: n bytes of the buffer, from the
\* operation's pointer, land in the output file at its offset.
KernelWrite(e) ==
    /\ RingAlive
    /\ e \in inflight /\ e.tag = TAG_WRITE
    /\ \E n \in Transfers(e.len) :
         /\ dst' = [j \in DOMAIN dst |->
                      IF e.offset <= j /\ j < e.offset + n
                      THEN [val |-> bufs[e.buf][e.ptr + (j - e.offset)],
                            n |-> dst[j].n + 1]
                      ELSE dst[j]]
         /\ cq' = Append(cq, [user_data |-> UserData(e.buf, TAG_WRITE),
                              result |-> n])
         /\ hist' = [hist EXCEPT !.short_write = @ \/ n < e.len]
    /\ inflight' = inflight \ {e}
    /\ UNCHANGED <<arg_data, engine, bufs, handle, sq, registered>>

\* The kernel fails a submitted operation with an errno.  One operation per
\* run is failed: the engine returns at the first negative completion it
\* takes, so it never sees what a second failure would have posted.
KernelFail(e) ==
    /\ RingAlive
    /\ e \in inflight
    /\ ~hist.fault
    /\ \E c \in Errnos :
         cq' = Append(cq, [user_data |-> UserData(e.buf, e.tag),
                           result |-> -c])
    /\ hist' = [hist EXCEPT !.fault = TRUE]
    /\ inflight' = inflight \ {e}
    /\ UNCHANGED <<arg_data, engine, bufs, handle, sq, registered, dst>>

Kernel ==
    \E e \in inflight : KernelRead(e) \/ KernelWrite(e) \/ KernelFail(e)

Next ==
    \/ Prologue \/ QueryMemlock \/ Register \/ SpawnReporter
    \/ LoopHead \/ Fill \/ FillDone \/ DrainTop \/ Wake
    \/ ReadFailed \/ WriteFailed \/ ReadCompleted \/ WritePartial \/ WriteFull
    \/ DrainCheck \/ Flush
    \/ Unregister \/ StopReporter \/ JoinAndReturn
    \/ ReporterTurn \/ ReporterExit
    \/ Kernel

Spec == Init /\ [][Next]_vars

\* ------------------------------------------- runs in which nothing fails ----
\* The steps of the thread that runs execute_dd; with no negative completion
\* posted, the branches at lib.rs:241-244 and 276-279 are not taken.
Engine ==
    \/ Prologue \/ QueryMemlock \/ Register \/ SpawnReporter
    \/ LoopHead \/ Fill \/ FillDone \/ DrainTop \/ Wake
    \/ ReadCompleted \/ WritePartial \/ WriteFull
    \/ DrainCheck \/ Flush
    \/ Unregister \/ StopReporter \/ JoinAndReturn

\* The kernel completes a submitted operation with a non-negative result.
KernelCompletes == \E e \in inflight : KernelRead(e) \/ KernelWrite(e)

NextCompleting ==
    Engine \/ ReporterTurn \/ ReporterExit \/ KernelCompletes

\* The calling thread keeps running, the kernel completes every submitted
\* operation, and the reporter sees the stop flag at its next turn.
Fairness ==
    /\ WF_vars(Engine)
    /\ WF_vars(KernelCompletes)
    /\ WF_vars(ReporterExit)

SpecCompleting == Init /\ [][NextCompleting]_vars /\ Fairness


\* ------------------------------------------------------------- the claims ----
RECURSIVE WrittenUpTo(_)
WrittenUpTo(j) == IF j < 0 THEN 0 ELSE dst[j].n + WrittenUpTo(j - 1)

\* Bytes the kernel has written to the output file in this run.
Written == WrittenUpTo(DstLen - 1)

ReturnedOk == pc = "returned" /\ result.kind = "Ok"

SeekError == Other("Invalid input seek offset")

\* Destination byte obase + i holds source byte ibase + i, written once.
Copied(i) == dst[obase + i] = [val |-> SrcByte(ibase + i), n |-> 1]

NoShortTransfer == ~hist.short_read /\ ~hist.short_write

SeekBeyondEnd == arg_data.iseek * arg_data.block_size > arg_data.ifile_len

\* total_size as the claim states it, from the arguments.
ExpectedTotal ==
    LET rest == arg_data.ifile_len - arg_data.iseek * arg_data.block_size
    IN IF arg_data.count = {} THEN rest
       ELSE Min(rest, (CHOOSE c \in arg_data.count : TRUE) * arg_data.block_size)

\* C1: whenever execute_dd returns Ok, under any pattern of short reads and
\* short writes, every byte i of [0, total_size) has been written exactly once
\* to destination offset obase + i with the value of source byte ibase + i.
C1_ByteExact ==
    ReturnedOk => \A i \in 0..(total_size - 1) : Copied(i)

C3_ReturnValue ==
    ReturnedOk => result.val = ExpectedTotal /\ result.val = Written

\* C4: when the drive loop exits, cur_blocks equals num_blocks exactly, for
\* every completion order and every pattern of short transfers.
C4_BlocksExact ==
    pc \in {"unregister", "stop", "join"} => cur_blocks = num_blocks

\* C5: whenever registration succeeded, every return of execute_dd (Ok, an
\* I/O error from a negative completion, a submit failure) is preceded by
\* unregister_buffers and unregister_files: nothing is left registered.
C5_Unregistered ==
    (pc = "returned" /\ hist.registered_ok /\ result # UnregisterFailed)
        => ~registered.buffers /\ ~registered.files

\* C6: a completion with a negative result r makes execute_dd return
\* Err(os error -r) at once: nothing is pushed or submitted, no buffer is
\* released, no counter changes; and once execute_dd has returned, no further
\* completion is taken and nothing is submitted.
C6_NegativeAborts ==
    /\ [][(pc = "cqe" /\ cq # <<>> /\ Head(cq).result < 0 /\ pc' # pc)
            => /\ pc' = "returned"
               /\ result' = OsError(-Head(cq).result)
               /\ UNCHANGED <<sq, inflight, free_bufs, cur_blocks, cur_bytes,
                              to_reads, metadata, status_byte_count>>]_vars
    /\ [][pc = "returned"
            => UNCHANGED <<pc, result, sq, inflight, cq, free_bufs,
                           cur_blocks, cur_bytes, to_reads, metadata,
                           status_byte_count>>]_vars

C6_Witness ==
    /\ pc = "returned" /\ result.kind = "Err" /\ result.msg = "os"
    /\ result.val \in Errnos
    /\ cq # <<>> /\ Head(cq).result >= 0      \* a completion left untaken
    /\ cur_blocks >= 1 /\ cur_blocks < num_blocks

NothingStarted ==
    /\ ~registered.buffers /\ ~registered.files /\ ~hist.registered_ok
    /\ sq = <<>> /\ inflight = {} /\ cq = <<>>
    /\ Written = 0

\* C7: with iseek * block_size greater than the input length execute_dd
\* returns an error before anything is registered or submitted, and nothing is
\* written; with iseek * block_size at most the input length the seek error
\* is not raised.
C7_SeekRange ==
    /\ (SeekBeyondEnd /\ pc # "start")
          => /\ pc = "returned" /\ result.kind = "Err"
             /\ ~hist.fault => result = SeekError
             /\ NothingStarted
    /\ ~SeekBeyondEnd => result # SeekError

C7_Witness ==
    pc = "returned" /\ result = SeekError /\ SeekBeyondEnd /\ NothingStarted

InRange(e, base) ==
    base <= e.offset /\ e.offset + e.len <= base + total_size

\* C8: every write submitted (first or reissued) lies in
\* [obase, obase + total_size) and every read in [ibase, ibase + total_size);
\* so no destination byte outside that range is touched, and with a count at
\* most count * block_size bytes are written.
C8_Frame ==
    /\ \A e \in Range(sq) \cup inflight :
          IF e.tag = TAG_WRITE THEN InRange(e, obase) ELSE InRange(e, ibase)
    /\ \A j \in DOMAIN dst :
          dst[j].n > 0 => obase <= j /\ j < obase + total_size
    /\ \A c \in arg_data.count : Written <= c * arg_data.block_size

C8_Witness ==
    /\ \E e \in inflight : e.tag = TAG_WRITE /\ e.ptr > 0 /\ e.offset > obase
    /\ \E c \in arg_data.count :
          c * arg_data.block_size < arg_data.ifile_len - ibase
    /\ obase > 0

\* C9: for every block size, buffer count and memlock limit, the computed
\* registered_num_buffers is within 0..num_buffers and
\* registered_num_buffers * block_size < memlock_limit, with no underflow.
C9_Boundary ==
    /\ result.msg # "attempt to subtract with overflow"
    /\ pc = "register"
          => /\ 0 <= registered_num_buffers
             /\ registered_num_buffers <= num_buffers
             /\ registered_num_buffers * bs < max_buf_size

\* C10: with progress enabled, the stop flag is set and the reporter thread
\* has exited before execute_dd returns, whether with Ok or with an error.
C10_ReporterStopped ==
    (pc = "returned" /\ arg_data.progress /\ hist.registered_ok)
        => stop_flag /\ handle = "exited"


\* The arguments select an empty range: empty file, seek exactly at the end
\* of the file, or count = 0.
EmptyRange == ~SeekBeyondEnd /\ ExpectedTotal = 0

\* The free queue as line 124 builds it: every index, in order.
AllFree == free_bufs = [i \in 1..arg_data.num_buffers |-> i - 1]

\* Positions inside the body of the drive loop (lib.rs:193-318).
LoopBody == {"fill", "drain", "wait", "cqe", "check", "flush"}

\* C11: with total_size = 0 (and no call of the ring failing) execute_dd ends
\* without entering the drive loop: num_blocks is 0, no read or write is
\* submitted, no buffer leaves the free queue, and the result is Ok(0).
C11_EmptyRange ==
    (EmptyRange /\ ~hist.fault)
        => /\ pc \notin LoopBody
           /\ num_blocks = 0
           /\ sq = <<>> /\ inflight = {} /\ cq = <<>> /\ Written = 0
           /\ pc # "start" => AllFree
           /\ pc \in {"returned", "panicked"} => result = Ok(0)

Buffers == 0..(arg_data.num_buffers - 1)

\* Operations outstanding on buffer b: pushed, submitted, or completed with
\* the completion not yet taken.
OpsOn(b) ==
    Cardinality({i \in DOMAIN sq : sq[i].buf = b})
      + Cardinality({e \in inflight : e.buf = b})
      + Cardinality({i \in DOMAIN cq : BufIdx(cq[i].user_data) = b})

\* The operations a step hands to the ring.
NewOps == (Range(sq') \cup inflight') \ (Range(sq) \cup inflight)

\* C12: each buffer has at most one operation outstanding (so never more
\* than num_buffers in all, and one at a time with a single buffer); a write
\* on a buffer is submitted only by the handler of that buffer's completed
\* read or partial write; a read is submitted only on a buffer taken from the
\* free queue with nothing outstanding on it.
C12_Sequenced ==
    /\ [](/\ \A b \in Buffers : OpsOn(b) <= 1
          /\ Len(sq) + Cardinality(inflight) + Len(cq) <= arg_data.num_buffers)
    /\ [][\A e \in NewOps :
            /\ e.tag = TAG_WRITE
                 => /\ pc = "cqe" /\ cq # <<>>
                    /\ CqeBuf = e.buf /\ CqeRes >= 0
                    /\ OpsOn(e.buf) = 1
            /\ e.tag = TAG_READ
                 => /\ pc = "fill" /\ free_bufs # <<>>
                    /\ Head(free_bufs) = e.buf
                    /\ OpsOn(e.buf) = 0]_vars

C12_Witness ==
    /\ arg_data.num_buffers = 2
    /\ \E e \in inflight : e.tag = TAG_WRITE /\ e.ptr > 0
    /\ \E i \in DOMAIN cq : OpType(cq[i].user_data) = TAG_READ
    /\ pc = "wait"

\* C13: every write handed to the ring, first or reissued, starts at the
\* buffer position that matches its file offset: with w the file offset of
\* the buffer's first write (from buffer position 0), a write at file offset
\* w + k reads from buffer position k.
C13_Aligned ==
    \A e \in Range(sq) \cup inflight :
        e.tag = TAG_WRITE
            => e.ptr = e.offset
                         - WriteOffset(obase, metadata[e.buf * 2].offset, ibase)

\* Positions of the drive loop, between completion handlers.
DriveLoop == LoopBody \cup {"loop"}

\* How many times buffer b is in the free queue.
FreeCount(b) == Cardinality({i \in DOMAIN free_bufs : free_bufs[i] = b})

\* C14: in every state of the drive loop a buffer index is in the free queue
\* if and only if no read or write for it is outstanding; no index is in the
\* queue twice and every index in it is in [0, num_buffers).
C14_FreeQueue ==
    pc \in DriveLoop
        => /\ \A b \in Buffers : /\ FreeCount(b) <= 1
                                 /\ FreeCount(b) = 1 <=> OpsOn(b) = 0
           /\ \A i \in DOMAIN free_bufs : free_bufs[i] \in Buffers

C14_Witness ==
    /\ pc \in DriveLoop
    /\ arg_data.num_buffers = 2
    /\ free_bufs = <<0>>          \* released once, buffer 1 still busy
    /\ cur_blocks >= 1
    /\ OpsOn(1) = 1

\* C15 as the specification states it: the bytes of the backlog entries plus
\* the bytes already consumed (cur_bytes) equal total_size.
C15_BacklogSum ==
    pc \in DriveLoop => SumSizes(to_reads) + cur_bytes = total_size

\* C15, amended: the backlog holds non-empty, pairwise disjoint parts of the
\* consumed prefix [ibase, ibase + cur_bytes) of the range, so its bytes are
\* at most cur_bytes, and cur_bytes is at most total_size.
C15_BacklogWithinConsumed ==
    /\ cur_bytes <= total_size
    /\ SumSizes(to_reads) <= cur_bytes
    /\ \A i \in DOMAIN to_reads :
          /\ to_reads[i][2] >= 1
          /\ ibase <= to_reads[i][1]
          /\ to_reads[i][1] + to_reads[i][2] <= ibase + cur_bytes
    /\ \A i, j \in DOMAIN to_reads :
          i < j => \/ to_reads[i][1] + to_reads[i][2] <= to_reads[j][1]
                   \/ to_reads[j][1] + to_reads[j][2] <= to_reads[i][1]

C15_Witness ==
    /\ pc \in DriveLoop
    /\ to_reads # <<>>
    /\ cur_bytes < total_size
    /\ SumSizes(to_reads) < cur_bytes

C17_BlocksOnlyIdle ==
    /\ [](pc = "wait"
            => \/ free_bufs = <<>>
               \/ to_reads = <<>> /\ cur_bytes = total_size)
    /\ [][(pc' = "wait" /\ pc # "wait") => (pc = "drain" /\ cq = <<>>)]_vars

C17_Witness ==
    /\ pc = "wait" /\ cq = <<>> /\ inflight # {}
    /\ free_bufs = <<>>
    /\ to_reads # <<>> \/ cur_bytes < total_size

\* Bytes reported by the write completions of q (those not yet taken, for
\* q = cq).
RECURSIVE ReportedIn(_)
ReportedIn(q) ==
    IF q = <<>> THEN 0
    ELSE (IF OpType(Head(q).user_data) = TAG_WRITE /\ Head(q).result > 0
          THEN Head(q).result ELSE 0) + ReportedIn(Tail(q))

\* C18: the progress counter changes only when the drive loop takes a write
\* completion, and then grows by the bytes that completion reports; it never
\* decreases, never exceeds total_size, and equals the bytes reported by the
\* write completions taken so far (all bytes written, less those of the
\* completions still in the queue).
C18_Progress ==
    /\ [](/\ status_byte_count <= total_size
          /\ status_byte_count + ReportedIn(cq) = Written)
    /\ [][/\ status_byte_count' >= status_byte_count
          /\ status_byte_count' # status_byte_count
               => /\ pc = "cqe" /\ cq # <<>>
                  /\ OpType(Cqe.user_data) = TAG_WRITE
                  /\ status_byte_count' = status_byte_count + CqeRes]_vars

C18_Witness ==
    /\ ReturnedOk /\ arg_data.progress /\ handle = "exited"
    /\ hist.short_write
    /\ total_size >= 2
    /\ status_byte_count = total_size

\* Buffer b has an operation of kind tag outstanding.
Busy(b, tag) ==
    \/ \E e \in Range(sq) \cup inflight : e.buf = b /\ e.tag = tag
    \/ \E i \in DOMAIN cq : cq[i].user_data = UserData(b, tag)

\* The source range buffer b holds: that of its outstanding read, or of its
\* outstanding write taken back to the input file's offsets.
HeldRange(b) ==
    IF Busy(b, TAG_READ)
    THEN <<metadata[b * 2].offset, metadata[b * 2].size>>
    ELSE IF Busy(b, TAG_WRITE)
    THEN <<metadata[b * 2 + 1].offset - obase + ibase,
           metadata[b * 2 + 1].size>>
    ELSE <<ibase, 0>>

\* The ranges held by the backlog and by the buffers.
HeldRanges == to_reads \o [i \in 1..arg_data.num_buffers |-> HeldRange(i - 1)]

\* C19: in every state of the drive loop the bytes not yet planned
\* (total_size - cur_bytes), the backlog, the requested sizes of the
\* outstanding reads and writes and the bytes reported written add up to
\* total_size, and the source ranges held by the backlog and by the
\* outstanding reads and writes are pairwise disjoint.
C19_Conservation ==
    pc \in DriveLoop
        => /\ (total_size - cur_bytes) + SumSizes(HeldRanges)
                 + status_byte_count = total_size
           /\ \A i, j \in DOMAIN HeldRanges :
                 i < j => \/ HeldRanges[i][1] + HeldRanges[i][2]
                                <= HeldRanges[j][1]
                          \/ HeldRanges[j][1] + HeldRanges[j][2]
                                <= HeldRanges[i][1]

C19_Witness ==
    /\ pc \in DriveLoop
    /\ to_reads # <<>>
    /\ \E b \in Buffers : Busy(b, TAG_READ)
    /\ \E b \in Buffers : Busy(b, TAG_WRITE)

\* C20: when the drive loop has exited and execute_dd goes on to unregister
\* and return Ok, nothing is outstanding or queued unsent, the backlog is
\* empty, cur_bytes = total_size and every buffer index is back in the free
\* queue.
C20_Quiescent ==
    (pc \in {"unregister", "stop", "join"} \/ ReturnedOk)
        => /\ sq = <<>> /\ inflight = {} /\ cq = <<>>
           /\ to_reads = <<>>
           /\ cur_bytes = total_size
           /\ \A b \in Buffers : FreeCount(b) = 1

=============================================================================
